---- MODULE Spec2Model ----
(***************************************************************************)
(* Model of the query-run lifecycle of the Flipside client                 *)
(* (src/src/flipside.rs, src/src/defaults.rs, src/src/rpc.rs).             *)
(*                                                                         *)
(* One invocation of Flipside::run, create_query_run, get_query_run or     *)
(* get_query_results is followed from the call to its return (Spec); in    *)
(* SpecCancel a cancel_query_run invocation runs beside run().  Every      *)
(* await point of an async function is a position of pc (cancel_pc for     *)
(* the concurrent invocation); the remote service and the wall clock       *)
(* are the environment: each remote call takes a duration drawn from       *)
(* Delays and answers with any well-typed response or a transport error.   *)
(* Durations are in milliseconds.                                          *)
(***************************************************************************)
EXTENDS Integers, Sequences, FiniteSets, TLC

VARIABLES
    op,              \* operation invoked: "none", "run", "create_query_run",
                     \* "get_query_run", "get_query_results"
    pc,              \* position of the invocation
    query,           \* the Query argument (owned until its fields are moved into the request)
    req,             \* the remote request in flight (last issued)
    timeout,         \* local `timeout` of run()
    retry_interval,  \* local `retry_interval` of run()
    query_run,       \* local `query_run` of run()
    query_run_id,    \* local `query_run_id` of run()
    retry_duration,  \* local `retry_duration` of run()
    start,           \* local `start` of run() (an Instant, as a clock reading)
    now,             \* the wall clock
    res,             \* last get_query_run response received
    outcome,         \* what the invocation returned
    t_call,          \* clock reading when the operation was called
    t_created,       \* clock reading when create_query_run returned
    nPolls,          \* number of get_query_run calls issued
    nSleeps,         \* number of sleeps started
    lastSleep,       \* duration requested by the last sleep
    firstRedirect,   \* redirect target carried by the first response ("none" if none)
    lastRedirect,    \* most recent redirect target carried by any response
    nRunning,        \* responses so far, while each was a plain Running (then Success); -1 once one was not
    args,            \* arguments of get_query_run / get_query_results
    calls,           \* remote calls issued by the invocation, per method
    failed,          \* method of the remote call that returned an error ("none" if none)
    cancel_pc,       \* position of the concurrent cancel_query_run invocation
    cancel_id,       \* its query_run_id argument
    remote_cancelled \* the runs the remote has put in state Cancelled

vars == <<op, pc, query, req, timeout, retry_interval, query_run, query_run_id,
          retry_duration, start, now, res, outcome, t_call, t_created,
          nPolls, nSleeps, lastSleep, firstRedirect, lastRedirect, nRunning,
          args, calls, failed, cancel_pc, cancel_id, remote_cancelled>>

----------------------------------------------------------------------------
(* Option<T> *)
Some(x) == [some |-> TRUE, v |-> x]
NoneInt == [some |-> FALSE, v |-> 0]
NoneBool == [some |-> FALSE, v |-> FALSE]
NoneStr == [some |-> FALSE, v |-> ""]

unwrap_or(o, d) == IF o.some THEN o.v ELSE d

----------------------------------------------------------------------------
(* defaults.rs *)
TTL_MINUTES == 60
MAX_AGE_MINUTES == 0
TIMEOUT == 20 * 60 * 1000
RETRY_INTERVAL == 500

----------------------------------------------------------------------------
(* Bounds of the model *)
MaxPolls == 4          \* get_query_run calls followed in one run()
ShortDelay == 300      \* an ordinary network round trip, ms
LongDelay == TIMEOUT   \* a stalled network round trip

Delays == {0, ShortDelay, LongDelay}

RunIds == {"A", "B"}

MaxAges == {NoneInt, Some(0), Some(59), Some(60), Some(61), Some(119), Some(120), Some(121)}
Cacheds == {NoneBool, Some(TRUE), Some(FALSE)}
Timeouts == {NoneInt, Some(1000)}
Intervals == {NoneInt, Some(0), Some(1000)}

Queries ==
    [max_age_minutes : MaxAges, cached : Cacheds,
     timeout : Timeouts, retry_interval_seconds : Intervals]

NoQuery ==
    [max_age_minutes |-> NoneInt, cached |-> NoneBool,
     timeout |-> NoneInt, retry_interval_seconds |-> NoneInt]

----------------------------------------------------------------------------
(* rpc.rs *)
QueryState ==
    {"QueryStateReady", "QueryStateRunning", "QueryStateSuccess",
     "QueryStateFailed", "QueryStateStreamingResults", "QueryStateCancelled"}

FailureStates == {"QueryStateFailed", "QueryStateCancelled"}

QueryRun(i, s, en, em, ed) ==
    [id |-> i, state |-> s, error_name |-> en, error_message |-> em, error_data |-> ed]

NoRun == QueryRun("none", "none", NoneStr, NoneStr, NoneStr)

\* The runs the remote may report under id i.  A run outside Failed/Cancelled
\* carries no error fields; a Failed/Cancelled run carries any subset of them.
RunsOf(i) ==
    {QueryRun(i, s, NoneStr, NoneStr, NoneStr) : s \in QueryState \ FailureStates}
    \cup
    {QueryRun(i, s, en, em, ed) :
        s \in FailureStates,
        en \in {NoneStr, Some("n1")},
        em \in {NoneStr, Some("m1")},
        ed \in {NoneStr, Some("d1")}}

\* What a redirecting response reports for the run that was asked for.
QueriedWhenRedirected(i) ==
    {QueryRun(i, s, NoneStr, NoneStr, NoneStr) :
        s \in {"QueryStateReady", "QueryStateRunning", "QueryStateSuccess"}}

GetQueryRunResult(qr, rd) == [query_run |-> qr, redirected_to_query_run |-> rd]

NoRes == GetQueryRunResult(NoRun, [some |-> FALSE, v |-> NoRun])

\* The responses to get_query_run(i).
Responses(i) ==
    {GetQueryRunResult(qr, [some |-> FALSE, v |-> NoRun]) : qr \in RunsOf(i)}
    \cup
    {GetQueryRunResult(qr, Some(rd)) :
        qr \in QueriedWhenRedirected(i),
        rd \in UNION {RunsOf(j) : j \in RunIds \ {i}}}

\* A request on the wire; the fields a method does not carry are left blank.
Request(m, i, ttl, age) ==
    [method |-> m, query_run_id |-> i, ttl_hours |-> ttl, max_age_minutes |-> age]
NoReq == Request("none", "none", 0, 0)
CreateQueryRunReq(ttl, age) == Request("createQueryRun", "none", ttl, age)
GetQueryRunReq(i) == Request("getQueryRun", i, 0, 0)

\* Pagination and Option<Pagination>
Pagination(n, sz) == [number |-> n, size |-> sz]
NonePage == [some |-> FALSE, v |-> Pagination(0, 0)]
Pages == {NonePage, Some(Pagination(2, 50))}

\* Vec<SortBy> and Vec<HashMap<FilterKey, String>>, as sequences of tokens
SortBys == {<<>>, <<"c1 desc">>}
Filters == {<<>>, <<"c1 eq x">>}

\* get_query_run_results(query_run_id, format, sort_by, filters, page)
GetQueryRunResultsReq(i, fmt, sb, fl, pg) ==
    [method |-> "getQueryRunResults", query_run_id |-> i, ttl_hours |-> 0,
     max_age_minutes |-> 0, format |-> fmt, sort_by |-> sb, filters |-> fl, page |-> pg]
CancelQueryRunReq(i) == Request("cancelQueryRun", i, 0, 0)

Methods == {"createQueryRun", "getQueryRun", "cancelQueryRun", "getQueryRunResults"}
NoCalls == [m \in Methods |-> 0]
Called(c, m) == [c EXCEPT ![m] = @ + 1]

Args(i, pg, sb, fl) == [query_run_id |-> i, page |-> pg, sort_by |-> sb, filters |-> fl]
NoArgs == Args("none", NonePage, <<>>, <<>>)

\* What the remote answers to cancel_query_run(i): the run, now Cancelled, or
\* the run as it already ended.
CanceledRuns(i) ==
    {QueryRun(i, s, NoneStr, NoneStr, NoneStr) : s \in {"QueryStateCancelled", "QueryStateSuccess"}}

----------------------------------------------------------------------------
(* flipside.rs: helpers *)
get_timeout(q) == unwrap_or(q.timeout, TIMEOUT)

get_retry_interval_seconds(q) == unwrap_or(q.retry_interval_seconds, RETRY_INTERVAL)

\* Variant: the override read the other way round (cached = true re-executes).
get_max_age_minutes_inverted(q) ==
    IF q.cached = Some(TRUE)
    THEN 0
    ELSE unwrap_or(q.max_age_minutes, MAX_AGE_MINUTES)

get_max_age_minutes(q) ==
    IF q.cached = Some(FALSE)
    THEN 0
    ELSE unwrap_or(q.max_age_minutes, MAX_AGE_MINUTES)

\* Variant: the accepted cache age is left out of the TTL.
get_ttl_hours_default(q) == TTL_MINUTES \div 60

get_ttl_hours(q) ==
    LET max_age_minutes == get_max_age_minutes(q)
    IN  (IF max_age_minutes > 60 THEN max_age_minutes ELSE TTL_MINUTES) \div 60

\* Variant: the poll follows the run observed last.
PollTarget_observed(qid, observed) == observed.id

\* The id run() polls with: the id taken from the created run, before the loop.
PollTarget(qid, observed) == qid

\* Variant: the redirect field is not looked at.
ObservedRun_queried(r) == r.query_run

\* res.redirected_to_query_run.unwrap_or(res.query_run)
ObservedRun(r) ==
    IF r.redirected_to_query_run.some THEN r.redirected_to_query_run.v ELSE r.query_run

\* Variant: the timer is started on entry to run().
StartInstant_onEntry(called, created) == called

\* Variant: the results are asked of the id the caller supplied.
ResultsTarget_supplied(supplied, r) == supplied

\* The id get_query_results asks the results of: query_run.id of the observed run.
ResultsTarget(supplied, r) == ObservedRun(r).id

\* Variant: pages counted from zero.
DefaultPage_zeroBased == Pagination(0, 100000)

\* Pagination { number: 1, size: 100000 }
DefaultPage == Pagination(1, 100000)

\* let start = Instant::now(), placed after the create_query_run await.
StartInstant(called, created) == created

\* start.elapsed()
Elapsed(clock, s) == clock - s

\* Variant: the timeout fires once half of it has elapsed.
TimedOut_early(elapsed, limit) == elapsed > limit \div 2

\* Variant: the timeout is compared in seconds against milliseconds.
TimedOut_late(elapsed, limit) == elapsed > limit * 1000

\* elapsed > timeout
TimedOut(elapsed, limit) == elapsed > limit

\* Variant: the backoff does not grow.
NextRetryDuration_constant(rd, ri) == rd

\* retry_duration += retry_interval
NextRetryDuration(rd, ri) == rd + ri

\* Variant: a Running run ends the loop like a successful one.
Classify_runningBreaks(s) ==
    CASE s \in {"QueryStateSuccess", "QueryStateRunning"} -> "break"
      [] s \in FailureStates -> "error"
      [] OTHER -> "continue"

\* Variant: the Cancelled arm is missing, so a cancelled run keeps being polled.
Classify_cancelledContinues(s) ==
    CASE s = "QueryStateSuccess" -> "break"
      [] s = "QueryStateFailed" -> "error"
      [] OTHER -> "continue"

\* Variant: a run that streams its results counts as finished.
Classify_streamingBreaks(s) ==
    CASE s \in {"QueryStateSuccess", "QueryStateStreamingResults"} -> "break"
      [] s \in FailureStates -> "error"
      [] OTHER -> "continue"

\* The match on query_run.state.
Classify(s) ==
    CASE s = "QueryStateSuccess" -> "break"
      [] s \in FailureStates -> "error"
      [] OTHER -> "continue"

\* Option::unwrap on the three error fields: a None panics.
ExecutionErrorOf(qr) ==
    IF qr.error_name.some /\ qr.error_message.some /\ qr.error_data.some
    THEN [kind |-> "ExecutionError", name |-> qr.error_name.v,
          message |-> qr.error_message.v, data |-> qr.error_data.v]
    ELSE [kind |-> "Panic"]

NoOutcome == [kind |-> "None"]

----------------------------------------------------------------------------
Init ==
    /\ op = "none"
    /\ pc = "idle"
    /\ query = NoQuery
    /\ req = NoReq
    /\ timeout = 0
    /\ retry_interval = 0
    /\ query_run = NoRun
    /\ query_run_id = "none"
    /\ retry_duration = 0
    /\ start = 0
    /\ now = 0
    /\ res = NoRes
    /\ outcome = NoOutcome
    /\ t_call = 0
    /\ t_created = 0
    /\ nPolls = 0
    /\ nSleeps = 0
    /\ lastSleep = 0
    /\ firstRedirect = "none"
    /\ lastRedirect = "none"
    /\ nRunning = 0
    /\ args = NoArgs
    /\ calls = NoCalls
    /\ failed = "none"
    /\ cancel_pc = "idle"
    /\ cancel_id = "none"
    /\ remote_cancelled = {}

----------------------------------------------------------------------------
(* Flipside::run, up to the create_query_run await (flipside.rs:83-99) *)
Run_call(q) ==
    /\ pc = "idle"
    /\ op' = "run"
    /\ query' = q
    /\ retry_interval' = get_retry_interval_seconds(q)
    /\ timeout' = get_timeout(q)
    /\ req' = CreateQueryRunReq(get_ttl_hours(q), get_max_age_minutes(q))
    /\ t_call' = now
    /\ pc' = "creating"
    /\ UNCHANGED <<query_run, query_run_id, retry_duration, start, now, res, outcome,
                   t_created, nPolls, nSleeps, lastSleep, firstRedirect, lastRedirect,
                   nRunning>>
    /\ calls' = Called(calls, "createQueryRun")
    /\ UNCHANGED <<args, failed, cancel_pc, cancel_id, remote_cancelled>>

(* create_query_run answered: flipside.rs:100-111, up to the first get_query_run await *)
Run_created(d, created) ==
    /\ op = "run"
    /\ pc = "creating"
    /\ now' = now + d
    /\ t_created' = now'
    /\ query_run' = created
    /\ query_run_id' = created.id
    /\ retry_duration' = retry_interval
    /\ start' = StartInstant(t_call, now')
    /\ query' = NoQuery
    /\ req' = GetQueryRunReq(PollTarget(query_run_id', query_run'))
    /\ nPolls' = nPolls + 1
    /\ pc' = "polling"
    /\ UNCHANGED <<op, timeout, retry_interval, res, outcome, t_call, nSleeps, lastSleep,
                   firstRedirect, lastRedirect, nRunning>>
    /\ calls' = Called(calls, "getQueryRun")
    /\ UNCHANGED <<args, failed, cancel_pc, cancel_id, remote_cancelled>>

(* create_query_run failed: map_err(QueryRunError::RpcError)? at flipside.rs:100 *)
Run_createFailed(d) ==
    /\ op = "run"
    /\ pc = "creating"
    /\ now' = now + d
    /\ query' = NoQuery
    /\ outcome' = [kind |-> "RpcError"]
    /\ pc' = "done"
    /\ UNCHANGED <<op, req, timeout, retry_interval, query_run, query_run_id, retry_duration,
                   start, res, t_call, t_created, nPolls, nSleeps, lastSleep,
                   firstRedirect, lastRedirect, nRunning>>
    /\ failed' = "createQueryRun"
    /\ UNCHANGED <<args, calls, cancel_pc, cancel_id, remote_cancelled>>

(* get_query_run answered: flipside.rs:113-131, up to the sleep await *)
Run_polled(d, r) ==
    /\ op = "run"
    /\ pc = "polling"
    /\ now' = now + d
    /\ res' = r
    /\ query_run' = ObservedRun(r)
    /\ firstRedirect' =
          IF nPolls = 1 /\ r.redirected_to_query_run.some
          THEN r.redirected_to_query_run.v.id
          ELSE firstRedirect
    /\ lastRedirect' =
          IF r.redirected_to_query_run.some
          THEN r.redirected_to_query_run.v.id
          ELSE lastRedirect
    /\ nRunning' =
          CASE nRunning < 0 \/ r.redirected_to_query_run.some -> -1
            [] r.query_run.state = "QueryStateRunning" -> nRunning + 1
            [] r.query_run.state = "QueryStateSuccess" -> nRunning
            [] OTHER -> -1
    /\ LET c == Classify(query_run'.state)
       IN  CASE c = "break" ->
                  /\ outcome' = [kind |-> "Ok", run |-> query_run']
                  /\ pc' = "done"
                  /\ UNCHANGED <<nSleeps, lastSleep>>
             [] c = "error" ->
                  /\ outcome' = ExecutionErrorOf(query_run')
                  /\ pc' = "done"
                  /\ UNCHANGED <<nSleeps, lastSleep>>
             [] OTHER ->
                  /\ lastSleep' = retry_duration
                  /\ nSleeps' = nSleeps + 1
                  /\ pc' = "sleeping"
                  /\ UNCHANGED outcome
    /\ UNCHANGED <<op, query, req, timeout, retry_interval, query_run_id, retry_duration,
                   start, t_call, t_created, nPolls>>
    /\ UNCHANGED <<args, calls, failed, cancel_pc, cancel_id, remote_cancelled>>

\* Variant: a failed poll is slept on and tried again.
Run_pollFailed_retries(d) ==
    /\ op = "run"
    /\ pc = "polling"
    /\ now' = now + d
    /\ failed' = "getQueryRun"
    /\ lastSleep' = retry_duration
    /\ nSleeps' = nSleeps + 1
    /\ pc' = "sleeping"
    /\ UNCHANGED <<op, query, req, timeout, retry_interval, query_run, query_run_id,
                   retry_duration, start, res, outcome, t_call, t_created, nPolls,
                   firstRedirect, lastRedirect, nRunning, args, calls,
                   cancel_pc, cancel_id, remote_cancelled>>

(* get_query_run failed: map_err(QueryRunError::RpcError)? at flipside.rs:113 *)
Run_pollFailed(d) ==
    /\ op = "run"
    /\ pc = "polling"
    /\ now' = now + d
    /\ outcome' = [kind |-> "RpcError"]
    /\ pc' = "done"
    /\ UNCHANGED <<op, query, req, timeout, retry_interval, query_run, query_run_id,
                   retry_duration, start, res, t_call, t_created, nPolls, nSleeps,
                   lastSleep, firstRedirect, lastRedirect, nRunning>>
    /\ failed' = "getQueryRun"
    /\ UNCHANGED <<args, calls, cancel_pc, cancel_id, remote_cancelled>>

\* Variant: on a timeout the run is cancelled before Timeout is returned.
Run_woke_cancels ==
    /\ op = "run"
    /\ pc = "sleeping"
    /\ now' = now + retry_duration
    /\ retry_duration' = NextRetryDuration(retry_duration, retry_interval)
    /\ LET elapsed == Elapsed(now', start)
       IN  IF TimedOut(elapsed, timeout)
           THEN /\ outcome' = [kind |-> "Timeout", elapsed |-> elapsed]
                /\ pc' = "done"
                /\ req' = CancelQueryRunReq(query_run_id)
                /\ calls' = Called(calls, "cancelQueryRun")
                /\ remote_cancelled' = remote_cancelled \cup {query_run_id}
                /\ UNCHANGED nPolls
           ELSE /\ nPolls < MaxPolls
                /\ req' = GetQueryRunReq(PollTarget(query_run_id, query_run))
                /\ nPolls' = nPolls + 1
                /\ calls' = Called(calls, "getQueryRun")
                /\ pc' = "polling"
                /\ UNCHANGED <<outcome, remote_cancelled>>
    /\ UNCHANGED <<op, query, timeout, retry_interval, query_run, query_run_id, start, res,
                   t_call, t_created, nSleeps, lastSleep, firstRedirect, lastRedirect,
                   nRunning, args, failed, cancel_pc, cancel_id>>

(* the sleep is over: flipside.rs:132-137, then the next get_query_run (108-112) *)
Run_woke ==
    /\ op = "run"
    /\ pc = "sleeping"
    /\ now' = now + retry_duration
    /\ retry_duration' = NextRetryDuration(retry_duration, retry_interval)
    /\ LET elapsed == Elapsed(now', start)
       IN  IF TimedOut(elapsed, timeout)
           THEN /\ outcome' = [kind |-> "Timeout", elapsed |-> elapsed]
                /\ pc' = "done"
                /\ UNCHANGED <<req, nPolls, calls>>
           ELSE /\ nPolls < MaxPolls
                /\ req' = GetQueryRunReq(PollTarget(query_run_id, query_run))
                /\ nPolls' = nPolls + 1
                /\ calls' = Called(calls, "getQueryRun")
                /\ pc' = "polling"
                /\ UNCHANGED outcome
    /\ UNCHANGED <<op, query, timeout, retry_interval, query_run, query_run_id, start, res,
                   t_call, t_created, nSleeps, lastSleep, firstRedirect, lastRedirect,
                   nRunning>>
    /\ UNCHANGED <<args, failed, cancel_pc, cancel_id, remote_cancelled>>

(* Flipside::create_query_run, up to the await (flipside.rs:143-153) *)
Create_call(q) ==
    /\ pc = "idle"
    /\ op' = "create_query_run"
    /\ query' = q
    /\ req' = CreateQueryRunReq(get_ttl_hours(q), get_max_age_minutes(q))
    /\ t_call' = now
    /\ pc' = "creating"
    /\ UNCHANGED <<timeout, retry_interval, query_run, query_run_id, retry_duration, start,
                   now, res, outcome, t_created, nPolls, nSleeps, lastSleep,
                   firstRedirect, lastRedirect, nRunning>>
    /\ calls' = Called(calls, "createQueryRun")
    /\ UNCHANGED <<args, failed, cancel_pc, cancel_id, remote_cancelled>>

(* Flipside::create_query_run returns the created run (flipside.rs:154-155) *)
Create_returned(d, created) ==
    /\ op = "create_query_run"
    /\ pc = "creating"
    /\ now' = now + d
    /\ t_created' = now'
    /\ query' = NoQuery
    /\ outcome' = [kind |-> "Ok", run |-> created]
    /\ pc' = "done"
    /\ UNCHANGED <<op, req, timeout, retry_interval, query_run, query_run_id, retry_duration,
                   start, res, t_call, nPolls, nSleeps, lastSleep, firstRedirect,
                   lastRedirect, nRunning>>
    /\ UNCHANGED <<args, calls, failed, cancel_pc, cancel_id, remote_cancelled>>

(* Flipside::create_query_run propagates the error (the ? at flipside.rs:154) *)
Create_failed(d) ==
    /\ op = "create_query_run"
    /\ pc = "creating"
    /\ now' = now + d
    /\ query' = NoQuery
    /\ outcome' = [kind |-> "RpcError"]
    /\ pc' = "done"
    /\ UNCHANGED <<op, req, timeout, retry_interval, query_run, query_run_id, retry_duration,
                   start, res, t_call, t_created, nPolls, nSleeps, lastSleep,
                   firstRedirect, lastRedirect, nRunning>>
    /\ failed' = "createQueryRun"
    /\ UNCHANGED <<args, calls, cancel_pc, cancel_id, remote_cancelled>>

(* Flipside::get_query_run, up to the await (flipside.rs:158-159) *)
Get_call(i) ==
    /\ pc = "idle"
    /\ op' = "get_query_run"
    /\ args' = Args(i, NonePage, <<>>, <<>>)
    /\ req' = GetQueryRunReq(i)
    /\ calls' = Called(calls, "getQueryRun")
    /\ t_call' = now
    /\ pc' = "getting"
    /\ UNCHANGED <<query, query_run, res, outcome, now, failed, cancel_pc, cancel_id, remote_cancelled,
                   timeout, retry_interval, query_run_id, retry_duration, start, t_created, nPolls, nSleeps, lastSleep, firstRedirect, lastRedirect, nRunning>>

\* Variant: a run that has not ended is fetched again.
Get_returned_polls(d, r) ==
    /\ op = "get_query_run"
    /\ pc = "getting"
    /\ now' = now + d
    /\ res' = r
    /\ IF Classify(ObservedRun(r).state) = "continue" /\ calls["getQueryRun"] < MaxPolls
       THEN /\ calls' = Called(calls, "getQueryRun")
            /\ UNCHANGED <<outcome, pc>>
       ELSE /\ outcome' = [kind |-> "Ok", run |-> ObservedRun(r)]
            /\ pc' = "done"
            /\ UNCHANGED calls
    /\ UNCHANGED <<op, query, req, query_run, t_call, args, failed, cancel_pc, cancel_id,
                   remote_cancelled, timeout, retry_interval, query_run_id, retry_duration,
                   start, t_created, nPolls, nSleeps, lastSleep, firstRedirect,
                   lastRedirect, nRunning>>

(* Flipside::get_query_run returns the observed run (flipside.rs:159-160) *)
Get_returned(d, r) ==
    /\ op = "get_query_run"
    /\ pc = "getting"
    /\ now' = now + d
    /\ res' = r
    /\ outcome' = [kind |-> "Ok", run |-> ObservedRun(r)]
    /\ pc' = "done"
    /\ UNCHANGED <<op, query, req, query_run, t_call, args, calls, failed, cancel_pc, cancel_id, remote_cancelled,
                   timeout, retry_interval, query_run_id, retry_duration, start, t_created, nPolls, nSleeps, lastSleep, firstRedirect, lastRedirect, nRunning>>

(* Flipside::get_query_run propagates the error (the ? at flipside.rs:159) *)
Get_failed(d) ==
    /\ op = "get_query_run"
    /\ pc = "getting"
    /\ now' = now + d
    /\ failed' = "getQueryRun"
    /\ outcome' = [kind |-> "RpcError"]
    /\ pc' = "done"
    /\ UNCHANGED <<op, query, req, query_run, res, t_call, args, calls, cancel_pc, cancel_id, remote_cancelled,
                   timeout, retry_interval, query_run_id, retry_duration, start, t_created, nPolls, nSleeps, lastSleep, firstRedirect, lastRedirect, nRunning>>

(* Flipside::get_query_results, up to the get_query_run await (flipside.rs:171-178) *)
Results_call(i, pg, sb, fl) ==
    /\ pc = "idle"
    /\ op' = "get_query_results"
    /\ args' = Args(i, pg, sb, fl)
    /\ req' = GetQueryRunReq(i)
    /\ calls' = Called(calls, "getQueryRun")
    /\ t_call' = now
    /\ pc' = "resolving"
    /\ UNCHANGED <<query, query_run, res, outcome, now, failed, cancel_pc, cancel_id, remote_cancelled,
                   timeout, retry_interval, query_run_id, retry_duration, start, t_created, nPolls, nSleeps, lastSleep, firstRedirect, lastRedirect, nRunning>>

(* get_query_run answered: flipside.rs:178-193, up to the get_query_run_results await *)
Results_resolved(d, r) ==
    /\ op = "get_query_results"
    /\ pc = "resolving"
    /\ now' = now + d
    /\ res' = r
    /\ query_run' = ObservedRun(r)
    /\ req' = GetQueryRunResultsReq(ResultsTarget(args.query_run_id, r), "csv",
                                    Some(args.sort_by), Some(args.filters),
                                    Some(unwrap_or(args.page, DefaultPage)))
    /\ calls' = Called(calls, "getQueryRunResults")
    /\ pc' = "fetching"
    /\ UNCHANGED <<op, query, outcome, t_call, args, failed, cancel_pc, cancel_id, remote_cancelled,
                   timeout, retry_interval, query_run_id, retry_duration, start, t_created, nPolls, nSleeps, lastSleep, firstRedirect, lastRedirect, nRunning>>

(* get_query_run failed: the ? at flipside.rs:178 *)
Results_resolveFailed(d) ==
    /\ op = "get_query_results"
    /\ pc = "resolving"
    /\ now' = now + d
    /\ failed' = "getQueryRun"
    /\ outcome' = [kind |-> "RpcError"]
    /\ pc' = "done"
    /\ UNCHANGED <<op, query, req, query_run, res, t_call, args, calls, cancel_pc, cancel_id, remote_cancelled,
                   timeout, retry_interval, query_run_id, retry_duration, start, t_created, nPolls, nSleeps, lastSleep, firstRedirect, lastRedirect, nRunning>>

(* get_query_run_results answered: its result is the return value (flipside.rs:182-194) *)
Results_returned(d) ==
    /\ op = "get_query_results"
    /\ pc = "fetching"
    /\ now' = now + d
    /\ outcome' = [kind |-> "Ok", results_of |-> req.query_run_id, page |-> req.page.v]
    /\ pc' = "done"
    /\ UNCHANGED <<op, query, req, query_run, res, t_call, args, calls, failed, cancel_pc, cancel_id, remote_cancelled,
                   timeout, retry_interval, query_run_id, retry_duration, start, t_created, nPolls, nSleeps, lastSleep, firstRedirect, lastRedirect, nRunning>>

(* get_query_run_results failed: the error is the return value (flipside.rs:182-194) *)
Results_failed(d) ==
    /\ op = "get_query_results"
    /\ pc = "fetching"
    /\ now' = now + d
    /\ failed' = "getQueryRunResults"
    /\ outcome' = [kind |-> "RpcError"]
    /\ pc' = "done"
    /\ UNCHANGED <<op, query, req, query_run, res, t_call, args, calls, cancel_pc, cancel_id, remote_cancelled,
                   timeout, retry_interval, query_run_id, retry_duration, start, t_created, nPolls, nSleeps, lastSleep, firstRedirect, lastRedirect, nRunning>>

(* Flipside::cancel_query_run, called while a run() invocation is past its    *)
(* submission, up to the await (flipside.rs:163-166).  It shares nothing with *)
(* run() but the client handle.                                               *)
Cancel_call(i) ==
    /\ op = "run"
    /\ pc \in {"polling", "sleeping", "done"}
    /\ cancel_pc = "idle"
    /\ i \notin remote_cancelled
    /\ cancel_id' = i
    /\ cancel_pc' = "cancelling"
    /\ UNCHANGED <<op, pc, query, req, query_run, res, outcome, now, t_call, args, calls,
                   failed, remote_cancelled,
                   timeout, retry_interval, query_run_id, retry_duration, start, t_created, nPolls, nSleeps, lastSleep, firstRedirect, lastRedirect, nRunning>>

(* cancel_query_run answered: the remote hands back the canceled run (flipside.rs:167-168) *)
Cancel_returned(c) ==
    /\ cancel_pc = "cancelling"
    /\ remote_cancelled' =
          IF c.state = "QueryStateCancelled"
          THEN remote_cancelled \cup {cancel_id}
          ELSE remote_cancelled
    /\ cancel_pc' = "idle"
    /\ cancel_id' = "none"
    /\ UNCHANGED <<op, pc, query, req, query_run, res, outcome, now, t_call, args, calls,
                   failed,
                   timeout, retry_interval, query_run_id, retry_duration, start, t_created, nPolls, nSleeps, lastSleep, firstRedirect, lastRedirect, nRunning>>

(* cancel_query_run failed: the ? at flipside.rs:167 *)
Cancel_failed ==
    /\ cancel_pc = "cancelling"
    /\ cancel_pc' = "idle"
    /\ cancel_id' = "none"
    /\ UNCHANGED <<op, pc, query, req, query_run, res, outcome, now, t_call, args, calls,
                   failed, remote_cancelled,
                   timeout, retry_interval, query_run_id, retry_duration, start, t_created, nPolls, nSleeps, lastSleep, firstRedirect, lastRedirect, nRunning>>

\* What the remote answers to get_query_run(i): a run it has cancelled is
\* reported Cancelled, without a redirect.
RemoteResponses(i) ==
    IF i \in remote_cancelled
    THEN {r \in Responses(i) :
            ~r.redirected_to_query_run.some /\ r.query_run.state = "QueryStateCancelled"}
    ELSE Responses(i)

\* The runs the remote may hand back from create_query_run.
CreatedRuns ==
    {QueryRun(i, s, NoneStr, NoneStr, NoneStr) :
        i \in RunIds, s \in {"QueryStateReady", "QueryStateRunning"}}

Next ==
    \/ \E q \in Queries : Run_call(q)
    \/ \E d \in Delays, c \in CreatedRuns : Run_created(d, c)
    \/ \E d \in Delays : Run_createFailed(d)
    \/ pc = "polling" /\ \E d \in Delays : \E r \in RemoteResponses(req.query_run_id) : Run_polled(d, r)
    \/ \E d \in Delays : Run_pollFailed(d)
    \/ Run_woke
    \/ \E q \in Queries : Create_call(q)
    \/ \E d \in Delays, c \in CreatedRuns : Create_returned(d, c)
    \/ \E d \in Delays : Create_failed(d)
    \/ \E i \in RunIds : Get_call(i)
    \/ pc = "getting" /\ \E d \in Delays : \E r \in RemoteResponses(req.query_run_id) : Get_returned(d, r)
    \/ \E d \in Delays : Get_failed(d)
    \/ \E i \in RunIds, pg \in Pages, sb \in SortBys, fl \in Filters : Results_call(i, pg, sb, fl)
    \/ pc = "resolving" /\ \E d \in Delays : \E r \in RemoteResponses(req.query_run_id) : Results_resolved(d, r)
    \/ \E d \in Delays : Results_resolveFailed(d)
    \/ \E d \in Delays : Results_returned(d)
    \/ \E d \in Delays : Results_failed(d)

Spec == Init /\ [][Next]_vars

\* run() with a cancel_query_run invocation beside it, aimed at the run that
\* run() created.

NextCancel ==
    \/ \E q \in Queries : Run_call(q)
    \/ \E d \in Delays, c \in CreatedRuns : Run_created(d, c)
    \/ \E d \in Delays : Run_createFailed(d)
    \/ pc = "polling" /\ \E d \in Delays : \E r \in RemoteResponses(req.query_run_id) : Run_polled(d, r)
    \/ \E d \in Delays : Run_pollFailed(d)
    \/ Run_woke
    \/ \E i \in {query_run_id} : Cancel_call(i)
    \/ \E c \in CanceledRuns(cancel_id) : Cancel_returned(c)
    \/ Cancel_failed

SpecCancel == Init /\ [][NextCancel]_vars

\* run() against a remote that answers every call and keeps reporting runs
\* that have not ended.
PendingResponses(i) ==
    {r \in RemoteResponses(i) :
        (IF r.redirected_to_query_run.some
         THEN r.redirected_to_query_run.v.state
         ELSE r.query_run.state)
        \in {"QueryStateReady", "QueryStateRunning", "QueryStateStreamingResults"}}

NextPending ==
    \/ \E q \in Queries : Run_call(q)
    \/ \E d \in Delays, c \in CreatedRuns : Run_created(d, c)
    \/ pc = "polling" /\ \E d \in Delays : \E r \in PendingResponses(req.query_run_id) : Run_polled(d, r)
    \/ Run_woke

\* Every await of the invocation completes: each remote call returns and each
\* sleep ends.
SpecPending == Init /\ [][NextPending]_vars /\ WF_vars(NextPending)

----------------------------------------------------------------------------
(* Properties *)

\* The run a get_query_run response designates: the redirected run when the
\* response carries one, the queried run otherwise.
Designated(r) ==
    IF r.redirected_to_query_run.some THEN r.redirected_to_query_run.v ELSE r.query_run

Max(a, b) == IF a >= b THEN a ELSE b

\* C1 (as stated): once the first get_query_run response has carried a redirect
\* to run B, every later get_query_run call of run() is made with B's id.
C1_PollsFollowRedirect ==
    (op = "run" /\ nPolls >= 2 /\ firstRedirect # "none")
        => req.query_run_id = firstRedirect

\* C1 (amended): every get_query_run call of run() is made with the id returned
\* by create_query_run, also after a response has carried a redirect.
C1_PollsKeepCreatedId ==
    (op = "run" /\ nPolls >= 1)
        => (req.method = "getQueryRun" /\ req.query_run_id = query_run_id)

C1_Witness ==
    /\ op = "run" /\ pc = "polling" /\ nPolls >= 2
    /\ firstRedirect # "none" /\ firstRedirect # query_run_id
    /\ req.query_run_id = query_run_id

\* C2 (as stated): once a response has carried a redirect to run B, a later
\* Ok(r) of that run() has r.id = B's id, also when later responses carry no
\* redirect.
C2_RedirectIsPermanent ==
    (op = "run" /\ outcome.kind = "Ok" /\ lastRedirect # "none")
        => outcome.run.id = lastRedirect

\* C2 (amended): when run() returns Ok(r), r is the run designated by the last
\* get_query_run response (its redirected run if it carries one, else the
\* queried run); a redirect carried by an earlier response is not kept.
C2_ResultIsLastDesignated ==
    (op = "run" /\ outcome.kind = "Ok") => outcome.run = Designated(res)

C2_Witness ==
    /\ op = "run" /\ outcome.kind = "Ok"
    /\ lastRedirect # "none" /\ ~res.redirected_to_query_run.some
    /\ outcome.run.id # lastRedirect
    /\ outcome.run = res.query_run

\* C3 (as stated): when the remote answers Running N times and then Success,
\* run() makes exactly N+1 get_query_run calls, sleeps exactly N times and
\* returns Ok with the run of the last response, for every N.
C3_RunningThenSuccess ==
    (op = "run" /\ pc = "done" /\ nRunning >= 0 /\ outcome.kind # "RpcError")
        => /\ outcome.kind = "Ok"
           /\ nPolls = nRunning + 1
           /\ nSleeps = nRunning
           /\ outcome.run = Designated(res)

\* C3 (amended): against such a remote run() either returns Ok with the run of
\* the last response after exactly N+1 get_query_run calls and N sleeps, or,
\* when the time elapsed after one of the sleeps exceeds the timeout, returns
\* Timeout after that sleep, having made as many calls as it slept.
C3_RunningThenSuccessOrTimeout ==
    (op = "run" /\ pc = "done" /\ nRunning >= 0 /\ outcome.kind # "RpcError")
        => \/ /\ outcome.kind = "Ok"
              /\ nPolls = nRunning + 1
              /\ nSleeps = nRunning
              /\ outcome.run = Designated(res)
              /\ outcome.run.state = "QueryStateSuccess"
           \/ /\ outcome.kind = "Timeout"
              /\ outcome.elapsed > timeout
              /\ nPolls = nRunning
              /\ nSleeps = nRunning

C3_Witness ==
    /\ op = "run" /\ pc = "done" /\ outcome.kind = "Ok"
    /\ nRunning = 2 /\ nPolls = 3 /\ nSleeps = 2

\* C4 (as stated): the elapsed time run() compares with the timeout and reports
\* in Timeout(elapsed) counts from the moment run() was called, the
\* create_query_run submission included.
C4_ElapsedSinceCall ==
    (op = "run" /\ outcome.kind = "Timeout") => outcome.elapsed = now - t_call

\* C4 (amended): the elapsed time counts from the moment create_query_run
\* returned; the time spent in the submission is not part of it.
C4_ElapsedSinceCreated ==
    (op = "run" /\ outcome.kind = "Timeout") => outcome.elapsed = now - t_created

C4_Witness ==
    /\ op = "run" /\ outcome.kind = "Timeout"
    /\ t_created > t_call
    /\ outcome.elapsed = now - t_created
    /\ outcome.elapsed < now - t_call

\* C5: Timeout(elapsed) is never early, elapsed >= the effective timeout
\* (query.timeout, or the 20-minute default); and with a 500 ms retry interval
\* and a 1 s timeout, run() has returned Timeout once its second sleep is over
\* (a remote that stays non-terminal and never errors gets it that far).
C5_TimeoutNotEarly ==
    /\ (op = "run" /\ pc = "creating")
          => timeout = (IF query.timeout.some THEN query.timeout.v ELSE 20 * 60 * 1000)
    /\ (op = "run" /\ outcome.kind = "Timeout") => outcome.elapsed >= timeout
    /\ (op = "run" /\ retry_interval = 500 /\ timeout = 1000
            /\ nSleeps >= 2 /\ pc # "sleeping")
          => (outcome.kind = "Timeout" /\ nPolls = 2)

C5_Witness ==
    /\ op = "run" /\ retry_interval = 500 /\ timeout = 1000
    /\ outcome.kind = "Timeout" /\ nSleeps = 2 /\ nPolls = 2
    /\ outcome.elapsed = 1500

\* C6: a poll that observes a Failed or Cancelled run with its three error
\* fields populated makes run() return ExecutionError with exactly those
\* values, with no sleep and no poll after it; Cancelled is treated as Failed.
C6_ExecutionErrorCarriesFields ==
    /\ (op = "run" /\ res # NoRes
            /\ Designated(res).state \in {"QueryStateFailed", "QueryStateCancelled"}
            /\ Designated(res).error_name.some
            /\ Designated(res).error_message.some
            /\ Designated(res).error_data.some)
          => /\ pc = "done"
             /\ outcome = [kind |-> "ExecutionError",
                           name |-> Designated(res).error_name.v,
                           message |-> Designated(res).error_message.v,
                           data |-> Designated(res).error_data.v]
             /\ nSleeps = nPolls - 1
    /\ (op = "run" /\ outcome.kind = "ExecutionError")
          => Designated(res).state \in {"QueryStateFailed", "QueryStateCancelled"}

C6_Witness ==
    /\ op = "run" /\ pc = "done" /\ nPolls = 2 /\ nSleeps = 1
    /\ Designated(res).state = "QueryStateCancelled"
    /\ outcome = [kind |-> "ExecutionError", name |-> "n1", message |-> "m1", data |-> "d1"]

\* C7: every run() invocation ends in one of Ok, RpcError, Timeout or
\* ExecutionError, whatever the remote answers; it never panics.
C7_ClosedOutcomes ==
    (op = "run" /\ pc = "done")
        => outcome.kind \in {"Ok", "RpcError", "Timeout", "ExecutionError"}

\* C8: the TTL sent on submission covers the accepted cache age and the
\* default TTL: ttl_hours * 60 >= max_age_minutes and ttl_hours * 60 >= 60.
C8_TtlCoversMaxAge ==
    req.method = "createQueryRun"
        => /\ req.ttl_hours * 60 >= req.max_age_minutes
           /\ req.ttl_hours * 60 >= 60

\* C9: the ttl_hours sent by run() and create_query_run() is
\* max(m, 60) / 60 in integer division, m being the max_age_minutes sent:
\* 60 / 60 for m <= 60 and m / 60 for m > 60.
C9_TtlHours ==
    req.method = "createQueryRun"
        => LET m == req.max_age_minutes
           IN  /\ req.ttl_hours = Max(m, 60) \div 60
               /\ (m <= 60 => req.ttl_hours = 60 \div 60)
               /\ (m > 60 => req.ttl_hours = m \div 60)

C9_Witness ==
    /\ req.method = "createQueryRun" /\ pc = "creating"
    /\ query.max_age_minutes = Some(120)
    /\ req.max_age_minutes = 120 /\ req.ttl_hours = 2

C11_ResultsOfResolvedRun ==
    op = "get_query_results"
        => /\ calls["getQueryRun"] = 1
           /\ (pc = "resolving"
                 => /\ req = GetQueryRunReq(args.query_run_id)
                    /\ calls["getQueryRunResults"] = 0)
           /\ (calls["getQueryRunResults"] >= 1
                 => /\ res # NoRes
                    /\ req.method = "getQueryRunResults"
                    /\ req.query_run_id =
                         (IF res.redirected_to_query_run.some
                          THEN res.redirected_to_query_run.v.id
                          ELSE res.query_run.id)
                    /\ (res.redirected_to_query_run.some
                          => req.query_run_id # args.query_run_id))

C11_Witness ==
    /\ op = "get_query_results" /\ pc = "fetching"
    /\ res.redirected_to_query_run.some
    /\ req.method = "getQueryRunResults"
    /\ req.query_run_id = res.redirected_to_query_run.v.id
    /\ req.query_run_id # args.query_run_id

\* C12: a transport error is not retried.  In run() a failed create_query_run
\* gives RpcError with no get_query_run call made, and a failed get_query_run
\* gives RpcError with no sleep and no remote call after it; in
\* get_query_results a failed get_query_run gives the error with no
\* get_query_run_results request made.
C12_ErrorsAreNotRetried ==
    /\ (failed # "none") <=> (outcome.kind = "RpcError")
    /\ failed # "none" => pc = "done"
    /\ (op = "run" /\ failed = "createQueryRun")
          => /\ calls = [NoCalls EXCEPT !["createQueryRun"] = 1]
             /\ nPolls = 0 /\ nSleeps = 0
    /\ (op = "run" /\ failed = "getQueryRun")
          => /\ calls = [NoCalls EXCEPT !["createQueryRun"] = 1, !["getQueryRun"] = nPolls]
             /\ nSleeps = nPolls - 1
             /\ req.method = "getQueryRun"
    /\ (op = "get_query_results" /\ failed = "getQueryRun")
          => /\ calls = [NoCalls EXCEPT !["getQueryRun"] = 1]
             /\ req.method = "getQueryRun"

C12_Witness ==
    /\ op = "run" /\ pc = "done" /\ failed = "getQueryRun"
    /\ outcome.kind = "RpcError"
    /\ nPolls = 2 /\ nSleeps = 1 /\ calls["getQueryRun"] = 2

\* C13: run() issues no cancel_query_run call, whatever its outcome; after a
\* Timeout the remote run is as the library found it and can still be
\* cancelled by its id.
C13_RunNeverCancels ==
    op = "run"
        => /\ calls["cancelQueryRun"] = 0
           /\ req.method \in {"createQueryRun", "getQueryRun"}
           /\ (outcome.kind = "Timeout" /\ cancel_pc = "idle" /\ remote_cancelled = {}
                 => ENABLED Cancel_call(query_run_id))

C13_Witness ==
    /\ op = "run" /\ outcome.kind = "Timeout"
    /\ calls["cancelQueryRun"] = 0
    /\ remote_cancelled = {query_run_id}

\* C14: a cancel_query_run(R) beside a run() that observes R leaves that
\* invocation's local state alone, and once the remote has put R in state
\* Cancelled the next poll of run() takes the Cancelled arm and run() returns
\* ExecutionError.
C14_CancelIsObserved ==
    [][ /\ (cancel_pc' # cancel_pc
              => UNCHANGED <<pc, req, query_run, query_run_id, retry_duration, start,
                             timeout, retry_interval, outcome, nPolls, nSleeps>>)
        /\ (op = "run" /\ pc = "polling" /\ pc' # "polling" /\ failed' = "none"
              /\ query_run_id \in remote_cancelled
              => /\ query_run'.state = "QueryStateCancelled"
                 /\ outcome'.kind = "ExecutionError") ]_vars

\* C15: a Query with cached = true is submitted with max_age_minutes = 0,
\* whatever max_age_minutes it carries.
C15_CachedTrueReexecutes ==
    (pc = "creating" /\ query.cached = Some(TRUE)) => req.max_age_minutes = 0

\* C16: get_query_results makes one get_query_run_results request per call, in
\* CSV format, for page 1 of size 100000 when page is omitted and for the
\* supplied page otherwise.
C16_DefaultPagination ==
    op = "get_query_results"
        => /\ calls["getQueryRunResults"] <= 1
           /\ (pc = "fetching" => calls["getQueryRunResults"] = 1)
           /\ (pc = "done" /\ failed # "getQueryRun" => calls["getQueryRunResults"] = 1)
           /\ (calls["getQueryRunResults"] = 1
                 => /\ req.method = "getQueryRunResults"
                    /\ req.format = "csv"
                    /\ req.page.some
                    /\ (~args.page.some => req.page.v = [number |-> 1, size |-> 100000])
                    /\ (args.page.some => req.page.v = args.page.v)
                    /\ req.sort_by = Some(args.sort_by)
                    /\ req.filters = Some(args.filters))

C16_Witness ==
    /\ op = "get_query_results" /\ pc = "done" /\ outcome.kind = "Ok"
    /\ ~args.page.some
    /\ req.page.v = [number |-> 1, size |-> 100000]
    /\ calls["getQueryRunResults"] = 1

\* C17: get_query_run(id) makes exactly one remote call, a get_query_run with
\* that id, never sleeps, and returns the redirected run when the response
\* carries one and the queried run otherwise, whatever the state of the run.
C17_GetQueryRunOnce ==
    op = "get_query_run"
        => /\ calls = [NoCalls EXCEPT !["getQueryRun"] = 1]
           /\ req = GetQueryRunReq(args.query_run_id)
           /\ nSleeps = 0
           /\ (res # NoRes => pc = "done" /\ outcome.kind = "Ok")
           /\ (outcome.kind = "Ok"
                 => outcome.run =
                      (IF res.redirected_to_query_run.some
                       THEN res.redirected_to_query_run.v
                       ELSE res.query_run))

C17_Witness ==
    /\ op = "get_query_run" /\ pc = "done"
    /\ res.redirected_to_query_run.some
    /\ outcome.kind = "Ok"
    /\ outcome.run = res.redirected_to_query_run.v
    /\ outcome.run.state = "QueryStateRunning"
    /\ calls["getQueryRun"] = 1

NonTerminalStates == {"QueryStateReady", "QueryStateRunning", "QueryStateStreamingResults"}

\* C18: in run() the k-th sleep lasts k times the effective retry interval
\* (query.retry_interval_seconds, or 500 ms), one sleep follows each poll that
\* observed Ready, Running or StreamingResults, and the timeout is only
\* checked after that sleep.
C18_LinearBackoff ==
    op = "run"
        => /\ (pc = "creating"
                 => retry_interval =
                      (IF query.retry_interval_seconds.some
                       THEN query.retry_interval_seconds.v ELSE 500))
           /\ (nSleeps >= 1 => lastSleep = nSleeps * retry_interval)
           /\ (pc = "sleeping"
                 => nSleeps = nPolls /\ Designated(res).state \in NonTerminalStates)
           /\ (pc = "polling" => nSleeps = nPolls - 1)
           /\ (outcome.kind = "Timeout"
                 => /\ nSleeps = nPolls /\ nSleeps >= 1
                    /\ Designated(res).state \in NonTerminalStates
                    /\ outcome.elapsed >= lastSleep)
           /\ (outcome.kind \in {"Ok", "ExecutionError", "Panic"} => nSleeps = nPolls - 1)

C18_Witness ==
    /\ op = "run" /\ pc = "sleeping"
    /\ retry_interval = 500 /\ nSleeps = 3 /\ lastSleep = 1500
    /\ Designated(res).state = "QueryStateStreamingResults"

\* C19: run() returns Ok(r) only when the run designated by its last
\* get_query_run response is in state Success, and r is that run; a run last
\* seen Ready, Running, StreamingResults, Failed or Cancelled is never Ok.
C19_OkOnlyOnSuccess ==
    /\ (op = "run" /\ outcome.kind = "Ok")
          => /\ res # NoRes
             /\ Designated(res).state = "QueryStateSuccess"
             /\ outcome.run = Designated(res)
    /\ (op = "run" /\ pc = "done" /\ res # NoRes
            /\ Designated(res).state \in (QueryState \ {"QueryStateSuccess"}))
          => outcome.kind # "Ok"

C19_Witness ==
    /\ op = "run" /\ outcome.kind = "Ok" /\ nPolls = 2
    /\ res.redirected_to_query_run.some
    /\ res.query_run.state = "QueryStateRunning"
    /\ outcome.run = res.redirected_to_query_run.v
    /\ outcome.run.state = "QueryStateSuccess"

\* The least k >= from with i * k * (k + 1) / 2 > T.
RECURSIVE LeastKFrom(_, _, _)
LeastKFrom(i, T, from) ==
    IF (i * from * (from + 1)) \div 2 > T THEN from ELSE LeastKFrom(i, T, from + 1)

LeastK(i, T) == LeastKFrom(i, T, 1)

\* C20: with a retry interval i > 0 and timeout T, whatever non-terminal states
\* the remote keeps returning, run() makes at most K get_query_run calls, K the
\* least k with i*k*(k+1)/2 > T, has returned Timeout once its K-th sleep is
\* over, and does return Timeout when every remote call returns.  With a retry
\* interval of 0 and remote calls that take no time, no time elapses and the
\* timeout never fires.
C20_BoundedPolls ==
    /\ [](op = "run" /\ retry_interval > 0
            => /\ nPolls <= LeastK(retry_interval, timeout)
               /\ (nSleeps >= LeastK(retry_interval, timeout) /\ pc # "sleeping"
                     => outcome.kind = "Timeout")
               /\ (outcome.kind = "Timeout"
                     => outcome.elapsed >= (retry_interval * nSleeps * (nSleeps + 1)) \div 2))
    /\ [](op = "run" /\ pc # "creating" /\ retry_interval = 0 /\ now = start
            => outcome.kind # "Timeout")
    /\ ((op = "run" /\ retry_interval > 0 /\ LeastK(retry_interval, timeout) <= MaxPolls)
            ~> (pc = "done" /\ outcome.kind = "Timeout"))

C20_Witness ==
    /\ op = "run" /\ pc = "done" /\ outcome.kind = "Timeout"
    /\ retry_interval = 1000 /\ timeout = 1000
    /\ nPolls = 2 /\ nPolls = LeastK(retry_interval, timeout)
    /\ outcome.elapsed = 3000

====
